---- MODULE Spec2Model ----
(***************************************************************************)
(* Model of the startup configurator of sc4-cpu-options                    *)
(* (src/src/CPUOptionsDllDirector.cpp): CPUOptionsDllDirector::OnStart     *)
(* and the helpers it calls.  Strings are sequences of one-character       *)
(* strings, affinity masks are naturals below 2^WordBits.                  *)
(***************************************************************************)
EXTENDS Integers, Sequences, FiniteSets, TLC

\* ------------------------------------------------------------------ bounds
\* Width of DWORD_PTR / intptr_t in the model (32 in the x86 build).
WordBits == 3

\* Longest string of the exhaustive short-string inputs.
MaxLen == 3

\* ------------------------------------------------------- program constants
\* <Windows.h> priority classes, as used by ProcessCPUPriorityValue.
HIGH_PRIORITY_CLASS == 128
ABOVE_NORMAL_PRIORITY_CLASS == 32768
NORMAL_PRIORITY_CLASS == 32
BELOW_NORMAL_PRIORITY_CLASS == 16384
IDLE_PRIORITY_CLASS == 64

\* The names compared against by ProcessCPUPriorityValue ("High"sv, ...).
High == <<"H", "i", "g", "h">>
AboveNormal == <<"A", "b", "o", "v", "e", "N", "o", "r", "m", "a", "l">>
Normal == <<"N", "o", "r", "m", "a", "l">>
BelowNormal == <<"B", "e", "l", "o", "w", "N", "o", "r", "m", "a", "l">>
Idle == <<"I", "d", "l", "e">>
Low == <<"L", "o", "w">>

\* ------------------------------------------------------------ characters
LowerCase == <<"a", "b", "c", "d", "e", "f", "g", "h", "i", "j", "k", "l", "m",
               "n", "o", "p", "q", "r", "s", "t", "u", "v", "w", "x", "y", "z">>
UpperCase == <<"A", "B", "C", "D", "E", "F", "G", "H", "I", "J", "K", "L", "M",
               "N", "O", "P", "Q", "R", "S", "T", "U", "V", "W", "X", "Y", "Z">>

\* std::toupper in the classic locale, the comparison boost::iequals applies
\* to each pair of characters.
ToUpper(c) ==
    IF \E i \in 1..26 : LowerCase[i] = c
    THEN UpperCase[CHOOSE i \in 1..26 : LowerCase[i] = c]
    ELSE c

\* Mutant: the comparison is case-sensitive.
EqualsCaseSensitive(lhs, rhs) == lhs = rhs

\* Mutant: the length test is dropped and lhs matches as a prefix of rhs.
EqualsIgnoreCasePrefix(lhs, rhs) ==
    /\ Len(lhs) <= Len(rhs)
    /\ \A i \in 1..Len(lhs) : ToUpper(lhs[i]) = ToUpper(rhs[i])

\* lhs.length() == rhs.length() && boost::iequals(lhs, rhs)
EqualsIgnoreCase(lhs, rhs) ==
    /\ Len(lhs) = Len(rhs)
    /\ \A i \in 1..Len(lhs) : ToUpper(lhs[i]) = ToUpper(rhs[i])

\* ------------------------------------------------------- word arithmetic
WordSize == 2 ^ WordBits
Words == 0..(WordSize - 1)
IntPtrMin == -(WordSize \div 2)
IntPtrs == IntPtrMin..(WordSize \div 2 - 1)

\* static_cast<intptr_t>(value)
ToIntPtr(v) == IF v >= WordSize \div 2 THEN v - WordSize ELSE v

\* conversion of an intptr_t to uintptr_t (modulo 2^WordBits)
ToUIntPtr(n) == (n + WordSize) % WordSize

\* Unary minus on intptr_t.  Negating the most negative value overflows,
\* which is undefined: the value the expression yields is then any intptr_t.
Negate(n) == IF n = IntPtrMin THEN IntPtrs ELSE {-n}

RECURSIVE BitAnd(_, _)
\* operator & on two unsigned words
BitAnd(a, b) ==
    IF a = 0 \/ b = 0 THEN 0
    ELSE (a % 2) * (b % 2) + 2 * BitAnd(a \div 2, b \div 2)

\* Mutant: the system mask is passed on whole.
GetLowestSetBitMaskWhole(value) == {value}

\* The values GetLowestSetBitMask(value) can return:
\* static_cast<uintptr_t>(value) & -static_cast<intptr_t>(value)
GetLowestSetBitMask(value) ==
    { BitAnd(value, ToUIntPtr(m)) : m \in Negate(ToIntPtr(value)) }

\* ------------------------------------------------------------------ state
VARIABLES
    cmdLine,              \* the host's command line: the two switches
    configFile,           \* SC4CPUOptions.ini at configFilePath
    systemAffinityMask,   \* the system mask GetProcessAffinityMask reports
    processAffinityMask,  \* the process affinity mask held by the OS
    priorityClass,        \* the process priority class held by the OS
    log,                  \* the severity-tagged lines written to the log
    osCalls,              \* the OS calls made so far, in order
    configOpened,         \* how often the configuration file was opened
    priorityCall,         \* the arguments ProcessCPUPriorityValue was called with
    value,                \* OnStart's local cRZBaseString value
    pc,                   \* the position of OnStart
    result                \* what OnStart returned

vars == <<cmdLine, configFile, systemAffinityMask, processAffinityMask,
          priorityClass, log, osCalls, configOpened, priorityCall, value,
          pc, result>>

\* Logger::WriteLine / Logger::WriteLineFormatted: the line is recorded with
\* its level, its format text and the text of its %s argument.
WriteLine(l, level, text, arg) ==
    Append(l, [level |-> level, text |-> text, arg |-> arg])

\* e.what() of a wil::ResultException
OsErrorText == <<"ResultException">>

\* ---------------------------------------------------- ConfigureForSingleCPU
\* SetProcessAffinityMask rejects a mask that is empty or that names a
\* processor outside the system mask; any call can fail for other reasons.
SetProcessAffinityMaskResults(mask) ==
    IF mask # 0 /\ BitAnd(mask, systemAffinityMask) = mask
    THEN {TRUE, FALSE}
    ELSE {FALSE}

GetCall(ok) == [api |-> "GetProcessAffinityMask", arg |-> 0, ok |-> ok]
SetAffinityCall(mask, ok) == [api |-> "SetProcessAffinityMask", arg |-> mask, ok |-> ok]
SetPriorityCall(class, ok) == [api |-> "SetPriorityClass", arg |-> class, ok |-> ok]

AffinityErrorLine(l) ==
    WriteLine(l, "Error",
              "An OS error occurred when configuring the game to use 1 CPU core: %s.",
              OsErrorText)

ConfigureForSingleCPU ==
    \E getOk \in BOOLEAN :
        IF ~getOk
        THEN /\ osCalls' = Append(osCalls, GetCall(FALSE))
             /\ log' = AffinityErrorLine(log)
             /\ UNCHANGED processAffinityMask
        ELSE \E firstLogicalProcessor \in GetLowestSetBitMask(systemAffinityMask) :
             \E setOk \in SetProcessAffinityMaskResults(firstLogicalProcessor) :
                /\ osCalls' = osCalls \o <<GetCall(TRUE),
                                           SetAffinityCall(firstLogicalProcessor, setOk)>>
                /\ IF setOk
                   THEN /\ processAffinityMask' = firstLogicalProcessor
                        /\ log' = WriteLine(log, "Info",
                                            "Configured the game to use 1 CPU core.", <<>>)
                   ELSE /\ UNCHANGED processAffinityMask
                        /\ log' = AffinityErrorLine(log)

\* -------------------------------------------------- ProcessCPUPriorityValue
\* The branch of the if / else-if chain that is taken for a value.
PriorityBranch(priority) ==
    IF EqualsIgnoreCase(priority, High) THEN "High"
    ELSE IF EqualsIgnoreCase(priority, AboveNormal) THEN "AboveNormal"
    ELSE IF EqualsIgnoreCase(priority, Normal) THEN "Normal"
    ELSE IF EqualsIgnoreCase(priority, BelowNormal) THEN "BelowNormal"
    ELSE IF EqualsIgnoreCase(priority, Idle) THEN "Idle"
    ELSE IF EqualsIgnoreCase(priority, Low) THEN "Low"
    ELSE "Unsupported"

\* Mutant: "Low" is an alias of "Idle" whatever its source.
cpuPriorityLowAlwaysIdle(priority, isCPUPriorityArgument) ==
    LET branch == PriorityBranch(priority) IN
    IF branch = "High" THEN HIGH_PRIORITY_CLASS
    ELSE IF branch = "AboveNormal" THEN ABOVE_NORMAL_PRIORITY_CLASS
    ELSE IF branch = "Normal" THEN NORMAL_PRIORITY_CLASS
    ELSE IF branch = "BelowNormal" THEN BELOW_NORMAL_PRIORITY_CLASS
    ELSE IF branch = "Idle" \/ branch = "Low" THEN IDLE_PRIORITY_CLASS
    ELSE 0

\* The value of the local cpuPriority after the chain (0: left unset).
cpuPriority(priority, isCPUPriorityArgument) ==
    LET branch == PriorityBranch(priority) IN
    IF branch = "High" THEN HIGH_PRIORITY_CLASS
    ELSE IF branch = "AboveNormal" THEN ABOVE_NORMAL_PRIORITY_CLASS
    ELSE IF branch = "Normal" THEN NORMAL_PRIORITY_CLASS
    ELSE IF branch = "BelowNormal" THEN BELOW_NORMAL_PRIORITY_CLASS
    ELSE IF branch = "Idle" THEN IDLE_PRIORITY_CLASS
    ELSE IF branch = "Low"
         THEN (IF isCPUPriorityArgument THEN 0 ELSE IDLE_PRIORITY_CLASS)
    ELSE 0

\* The log after the chain.
ChainLog(l, priority, isCPUPriorityArgument) ==
    LET branch == PriorityBranch(priority) IN
    IF branch = "Low" /\ isCPUPriorityArgument
    THEN WriteLine(l, "Info", "SC4 set its CPU priority to Low.", <<>>)
    ELSE IF branch = "Unsupported"
    THEN WriteLine(l, "Error", "Unsupported CPU priority value: %s", priority)
    ELSE l

\* Mutant: a failed SetPriorityClass call is made a second time.
ProcessCPUPriorityValueRetry(priority, isCPUPriorityArgument) ==
    LET class == cpuPriority(priority, isCPUPriorityArgument)
        chainLog == ChainLog(log, priority, isCPUPriorityArgument)
    IN  /\ priorityCall' = <<[priority |-> priority,
                              isCPUPriorityArgument |-> isCPUPriorityArgument]>>
        /\ IF class # 0
           THEN \E ok \in BOOLEAN :
                /\ osCalls' = IF ok THEN Append(osCalls, SetPriorityCall(class, TRUE))
                              ELSE osCalls \o <<SetPriorityCall(class, FALSE),
                                                SetPriorityCall(class, TRUE)>>
                /\ priorityClass' = class
                /\ log' = WriteLine(chainLog, "Info",
                                    "Set the game's CPU priority to %s.", priority)
           ELSE /\ log' = chainLog
                /\ UNCHANGED <<osCalls, priorityClass>>

ProcessCPUPriorityValue(priority, isCPUPriorityArgument) ==
    LET class == cpuPriority(priority, isCPUPriorityArgument)
        chainLog == ChainLog(log, priority, isCPUPriorityArgument)
    IN  /\ priorityCall' = <<[priority |-> priority,
                              isCPUPriorityArgument |-> isCPUPriorityArgument]>>
        /\ IF class # 0
           THEN \E ok \in BOOLEAN :
                /\ osCalls' = Append(osCalls, SetPriorityCall(class, ok))
                /\ IF ok
                   THEN /\ priorityClass' = class
                        /\ log' = WriteLine(chainLog, "Info",
                                            "Set the game's CPU priority to %s.", priority)
                   ELSE /\ UNCHANGED priorityClass
                        /\ log' = WriteLine(chainLog, "Error",
                                            "An OS error occurred when setting the CPU priority: %s.",
                                            OsErrorText)
           ELSE /\ log' = chainLog
                /\ UNCHANGED <<osCalls, priorityClass>>

\* ---------------------------------------------- SetCPUPriorityFromConfigFile
\* e.what() of the exception the try block throws for a file in this state.
ConfigErrorText(state) ==
    IF state = "absent" THEN <<"Failed to open the settings file.">>
    ELSE IF state = "malformed" THEN <<"ini_parser_error">>
    ELSE <<"ptree_bad_path">>

\* Mutant: a missing section or key falls back to "Normal".
SetCPUPriorityFromConfigFileDefault ==
    /\ configOpened' = configOpened + 1
    /\ IF configFile.state = "ok"
       THEN ProcessCPUPriorityValue(configFile.priority, FALSE)
       ELSE IF configFile.state \in {"nosection", "nokey"}
       THEN ProcessCPUPriorityValue(Normal, FALSE)
       ELSE /\ log' = WriteLine(log, "Error", "Error when setting the CPU priority: %s",
                                ConfigErrorText(configFile.state))
            /\ UNCHANGED <<osCalls, priorityClass, priorityCall>>

SetCPUPriorityFromConfigFile ==
    /\ configOpened' = configOpened + 1
    /\ IF configFile.state = "ok"
       THEN ProcessCPUPriorityValue(configFile.priority, FALSE)
       ELSE /\ log' = WriteLine(log, "Error", "Error when setting the CPU priority: %s",
                                ConfigErrorText(configFile.state))
            /\ UNCHANGED <<osCalls, priorityClass, priorityCall>>

\* ------------------------------------------------------------------ OnStart
\* IsSwitchPresent("CPUCount") is true: log the override, skip the affinity.
OnStartCPUCountArgument ==
    /\ pc = "CPUCount"
    /\ cmdLine.CPUCount.present
    /\ value' = cmdLine.CPUCount.value
    /\ log' = WriteLine(log, "Info",
                        "Skipped forcing the game to a single CPU because the command line contains -CPUCount:%s.",
                        value')
    /\ pc' = "CPUPriority"
    /\ UNCHANGED <<cmdLine, configFile, systemAffinityMask, processAffinityMask,
                   priorityClass, osCalls, configOpened, priorityCall, result>>

\* Mutant: the affinity is configured whether or not -CPUCount is present.
OnStartConfigureForSingleCPUAlways ==
    /\ pc = "CPUCount"
    /\ ConfigureForSingleCPU
    /\ pc' = "CPUPriority"
    /\ UNCHANGED <<cmdLine, configFile, systemAffinityMask, priorityClass,
                   configOpened, priorityCall, value, result>>

\* Mutant: a failed affinity step ends OnStart with false.
OnStartConfigureForSingleCPUAbort ==
    /\ pc = "CPUCount"
    /\ ~cmdLine.CPUCount.present
    /\ ConfigureForSingleCPU
    /\ IF osCalls'[Len(osCalls')].ok
       THEN pc' = "CPUPriority" /\ UNCHANGED result
       ELSE pc' = "done" /\ result' = FALSE
    /\ UNCHANGED <<cmdLine, configFile, systemAffinityMask, priorityClass,
                   configOpened, priorityCall, value>>

OnStartConfigureForSingleCPU ==
    /\ pc = "CPUCount"
    /\ ~cmdLine.CPUCount.present
    /\ ConfigureForSingleCPU
    /\ pc' = "CPUPriority"
    /\ UNCHANGED <<cmdLine, configFile, systemAffinityMask, priorityClass,
                   configOpened, priorityCall, value, result>>

OnStartCPUPriorityArgument ==
    /\ pc = "CPUPriority"
    /\ cmdLine.CPUPriority.present
    /\ value' = cmdLine.CPUPriority.value
    /\ ProcessCPUPriorityValue(value', TRUE)
    /\ pc' = "return"
    /\ UNCHANGED <<cmdLine, configFile, systemAffinityMask, processAffinityMask,
                   configOpened, result>>

\* Mutant: the configuration file is read whether or not -CPUPriority is present.
OnStartSetCPUPriorityFromConfigFileAlways ==
    /\ pc = "CPUPriority"
    /\ SetCPUPriorityFromConfigFile
    /\ pc' = "return"
    /\ UNCHANGED <<cmdLine, configFile, systemAffinityMask, processAffinityMask,
                   value, result>>

OnStartSetCPUPriorityFromConfigFile ==
    /\ pc = "CPUPriority"
    /\ ~cmdLine.CPUPriority.present
    /\ SetCPUPriorityFromConfigFile
    /\ pc' = "return"
    /\ UNCHANGED <<cmdLine, configFile, systemAffinityMask, processAffinityMask,
                   value, result>>

OnStartReturn ==
    /\ pc = "return"
    /\ result' = TRUE
    /\ pc' = "done"
    /\ UNCHANGED <<cmdLine, configFile, systemAffinityMask, processAffinityMask,
                   priorityClass, log, osCalls, configOpened, priorityCall, value>>

Next ==
    \/ OnStartCPUCountArgument
    \/ OnStartConfigureForSingleCPU
    \/ OnStartCPUPriorityArgument
    \/ OnStartSetCPUPriorityFromConfigFile
    \/ OnStartReturn

\* ------------------------------------------------------------------ inputs
ToLower(c) ==
    IF \E i \in 1..26 : UpperCase[i] = c
    THEN LowerCase[CHOOSE i \in 1..26 : UpperCase[i] = c]
    ELSE c

AllLower(s) == [i \in 1..Len(s) |-> ToLower(s[i])]
AllUpper(s) == [i \in 1..Len(s) |-> ToUpper(s[i])]

RECURSIVE CaseVariants(_)
\* Every spelling of s that differs from it only in the case of its letters.
CaseVariants(s) ==
    IF s = <<>> THEN {<<>>}
    ELSE { <<c>> \o t : c \in {ToLower(Head(s)), ToUpper(Head(s))},
                        t \in CaseVariants(Tail(s)) }

Names == {High, AboveNormal, Normal, BelowNormal, Idle, Low}

Alphabet == {"L", "l", "o", "O", "w", " "}

RECURSIVE StringsOfLength(_)
StringsOfLength(n) ==
    IF n = 0 THEN {<<>>}
    ELSE { <<c>> \o t : c \in Alphabet, t \in StringsOfLength(n - 1) }

\* Every string over Alphabet of at most MaxLen characters.
ShortStrings == UNION { StringsOfLength(n) : n \in 0..MaxLen }

\* Values that are no name: a misspelling, proper prefixes and extensions.
OtherValues ==
    { <<"b", "o", "g", "u", "s">>,
      <<"H", "i", "g">>, <<"H", "i", "g", "h", "h">>, <<"h", "i", "g", "h", " ">>,
      <<"L", "o">>, <<"L", "o", "w", "s">>, <<"I", "d", "l">>,
      <<"N", "o", "r", "m", "a", "l", "l">>, <<"A", "b", "o", "v", "e">>,
      <<"a", "b", "o", "v", "e", "n", "o", "r", "m", "a">>,
      <<"B", "e", "l", "o", "w">>, <<"B", "e", "l", "o", "w", "N", "o", "r", "m", "a", "l", "1">>,
      <<"R", "e", "a", "l", "t", "i", "m", "e">>, <<"1">> }

\* The values the full-sequence specification draws for both sources.
SampleValues ==
    Names \cup {AllLower(High), AllUpper(AboveNormal), AllLower(Low), AllUpper(Low),
                <<>>, <<"b", "o", "g", "u", "s">>, <<"L", "o">>, <<"L", "o", "w", "s">>}

\* The values the string specification draws for one source.
AllValues ==
    (UNION { CaseVariants(n) : n \in Names }) \cup ShortStrings \cup OtherValues

NoSwitch == [present |-> FALSE, value |-> <<>>]
Switch(v) == [present |-> TRUE, value |-> v]

NoPriority(state) == [state |-> state, priority |-> <<>>]
Priority(v) == [state |-> "ok", priority |-> v]

\* The states of the configuration file in which no priority can be read.
BrokenConfigStates == {"absent", "malformed", "nosection", "nokey"}

\* The state after the CPUOptionsDllDirector constructor, for given inputs.
Start(cmd, config, mask, class) ==
    /\ cmdLine = cmd
    /\ configFile = config
    /\ systemAffinityMask = mask
    /\ processAffinityMask = mask
    /\ priorityClass = class
    /\ log = <<>>
    /\ osCalls = <<>>
    /\ configOpened = 0
    /\ priorityCall = <<>>
    /\ value = <<>>
    /\ pc = "CPUCount"
    /\ result = "none"

Init ==
    \E count \in {NoSwitch, Switch(<<"2">>)} :
    \E prio \in {NoSwitch} \cup { Switch(v) : v \in SampleValues } :
    \E config \in { NoPriority(st) : st \in BrokenConfigStates }
                  \cup { Priority(v) : v \in SampleValues } :
    \E mask \in Words :
    \E class \in {NORMAL_PRIORITY_CLASS, IDLE_PRIORITY_CLASS} :
        Start([CPUCount |-> count, CPUPriority |-> prio], config, mask, class)

Spec == Init /\ [][Next]_vars

\* OnStart runs to its end on the host's thread: no step is postponed forever.
FairSpec == Spec /\ WF_vars(Next)

\* One value drawn from AllValues, given either by the command line (with a
\* valid configuration file beside it) or by the configuration file.
InitStrings ==
    \E v \in AllValues :
    \E source \in {"argument", "file"} :
        IF source = "argument"
        THEN Start([CPUCount |-> NoSwitch, CPUPriority |-> Switch(v)],
                   Priority(High), WordSize - 2, NORMAL_PRIORITY_CLASS)
        ELSE Start([CPUCount |-> Switch(<<"2">>), CPUPriority |-> NoSwitch],
                   Priority(v), WordSize - 2, NORMAL_PRIORITY_CLASS)

SpecStrings == InitStrings /\ [][Next]_vars

\* ------------------------------------------------------------ properties
Bit(m, k) == (m \div (2 ^ k)) % 2 = 1

\* mask is the single bit of the lowest-numbered processor of m
IsLowestSetBit(mask, m) ==
    \E k \in 0..(WordBits - 1) :
        /\ mask = 2 ^ k
        /\ Bit(m, k)
        /\ \A j \in 0..(k - 1) : ~Bit(m, j)

Calls(api) == { i \in DOMAIN osCalls : osCalls[i].api = api }

AffinityCalls == Calls("GetProcessAffinityMask") \cup Calls("SetProcessAffinityMask")

NameVariants == [n \in Names |-> CaseVariants(n)]

\* The class the specification gives for each of the five names of C2.
ExpectedClass(n) ==
    IF n = High THEN HIGH_PRIORITY_CLASS
    ELSE IF n = AboveNormal THEN ABOVE_NORMAL_PRIORITY_CLASS
    ELSE IF n = Normal THEN NORMAL_PRIORITY_CLASS
    ELSE IF n = BelowNormal THEN BELOW_NORMAL_PRIORITY_CLASS
    ELSE IDLE_PRIORITY_CLASS

Unrecognized(p) == \A n \in Names : p \notin NameVariants[n]

\* The step in which ProcessCPUPriorityValue is called.
PriorityCalled == priorityCall = <<>> /\ priorityCall' # <<>>

InfoLine(text, arg) == [level |-> "Info", text |-> text, arg |-> arg]
ErrorLine(text, arg) == [level |-> "Error", text |-> text, arg |-> arg]

LowestSetBitSelectedWithoutOverflow ==
    (systemAffinityMask # 0 /\ ToIntPtr(systemAffinityMask) # IntPtrMin) =>
        \A i \in Calls("SetProcessAffinityMask") :
            IsLowestSetBit(osCalls[i].arg, systemAffinityMask)

\* C2: for every case variant of High, AboveNormal, Normal, BelowNormal and
\* Idle, from the command line or from the file, exactly the class of the
\* canonical spelling is passed to SetPriorityClass.
C2_CaseInsensitive ==
    priorityCall # <<>> =>
        \A n \in Names \ {Low} :
            priorityCall[1].priority \in NameVariants[n] =>
                /\ Calls("SetPriorityClass") # {}
                /\ \A i \in Calls("SetPriorityClass") : osCalls[i].arg = ExpectedClass(n)

C2_Witness ==
    /\ priorityCall # <<>>
    /\ priorityCall[1].priority = <<"a", "B", "o", "V", "e", "n", "O", "r", "M", "a", "L">>
    /\ ~priorityCall[1].isCPUPriorityArgument
    /\ priorityClass = ABOVE_NORMAL_PRIORITY_CLASS

\* C3: "Low" from the command line makes no OS call and logs one Info line;
\* "Low" from the configuration file calls SetPriorityClass with the class
\* of "Idle".
C3_LowArgumentIsNoOp ==
    [][(PriorityCalled /\ priorityCall'[1].priority = Low) =>
        IF priorityCall'[1].isCPUPriorityArgument
        THEN /\ osCalls' = osCalls
             /\ priorityClass' = priorityClass
             /\ log' = Append(log, InfoLine("SC4 set its CPU priority to Low.", <<>>))
        ELSE \E ok \in BOOLEAN :
                osCalls' = Append(osCalls, SetPriorityCall(IDLE_PRIORITY_CLASS, ok))
      ]_vars

C3_Witness ==
    /\ pc = "done"
    /\ priorityCall = <<[priority |-> Low, isCPUPriorityArgument |-> TRUE]>>
    /\ configFile = Priority(High)
    /\ Calls("SetPriorityClass") = {}

\* C4: a value that is no case variant of the six names makes no OS call and
\* logs exactly one line, an Error line carrying the value, whatever the source.
C4_UnrecognizedValue ==
    [][(PriorityCalled /\ Unrecognized(priorityCall'[1].priority)) =>
        /\ osCalls' = osCalls
        /\ priorityClass' = priorityClass
        /\ log' = Append(log, ErrorLine("Unsupported CPU priority value: %s",
                                        priorityCall'[1].priority))
      ]_vars

C4_Witness ==
    /\ priorityCall = <<[priority |-> <<"H", "i", "g">>, isCPUPriorityArgument |-> FALSE]>>
    /\ log[Len(log)] = ErrorLine("Unsupported CPU priority value: %s", <<"H", "i", "g">>)
    /\ Calls("SetPriorityClass") = {}

\* C5: with the CPUCount switch present no affinity query and no set-affinity
\* call is ever made and the process affinity mask keeps its initial value
\* (Start: the system mask).
C5_CPUCountSkipsAffinity ==
    cmdLine.CPUCount.present =>
        /\ AffinityCalls = {}
        /\ processAffinityMask = systemAffinityMask

C5_Witness ==
    /\ pc = "done"
    /\ cmdLine.CPUCount.present
    /\ Calls("SetPriorityClass") # {}
    /\ AffinityCalls = {}

\* C6: at most one SetPriorityClass call is made in a run of OnStart.
C6_AtMostOnePriorityCall == Cardinality(Calls("SetPriorityClass")) <= 1

C6_Witness ==
    /\ pc = "done"
    /\ \E i \in Calls("SetPriorityClass") : ~osCalls[i].ok
    /\ Cardinality(Calls("SetPriorityClass")) = 1

\* C7: with the file absent, unparsable or lacking the section or the key,
\* SetCPUPriorityFromConfigFile returns normally, logs one Error line, makes
\* no OS call and leaves the priority class unchanged.
C7_BrokenConfigFile ==
    [][(/\ pc = "CPUPriority"
        /\ ~cmdLine.CPUPriority.present
        /\ configFile.state \in BrokenConfigStates) =>
        /\ pc' = "return"
        /\ Len(log') = Len(log) + 1
        /\ SubSeq(log', 1, Len(log)) = log
        /\ log'[Len(log')].level = "Error"
        /\ osCalls' = osCalls
        /\ priorityClass' = priorityClass
      ]_vars

C7_Witness ==
    /\ pc = "return"
    /\ configOpened = 1
    /\ configFile.state = "nokey"
    /\ log[Len(log)].level = "Error"

AffinityFailed == \E i \in AffinityCalls : ~osCalls[i].ok

PriorityStepExecuted == priorityCall # <<>> \/ configOpened > 0

\* C8: every run of OnStart reaches its end and returns true; a failed
\* affinity step has logged an Error line and the priority step has been
\* executed by the time OnStart returns.
C8_OnStartAlwaysReturnsTrue ==
    /\ <>(pc = "done" /\ result = TRUE)
    /\ [](pc = "done" => result = TRUE /\ PriorityStepExecuted)
    /\ [](AffinityFailed =>
            log[1] = ErrorLine("An OS error occurred when configuring the game to use 1 CPU core: %s.",
                               OsErrorText))

C8_Witness ==
    /\ pc = "done"
    /\ result = TRUE
    /\ AffinityFailed
    /\ \E i \in Calls("SetPriorityClass") : ~osCalls[i].ok

\* C9: neither switch, Priority=AboveNormal in the file, every OS call
\* succeeding: at the end the affinity is the lowest processor of the system
\* mask, the class is above-normal and the log is the affinity Info line
\* followed by the priority Info line.
C9_EndToEnd ==
    (/\ pc = "done"
     /\ ~cmdLine.CPUCount.present
     /\ ~cmdLine.CPUPriority.present
     /\ configFile = Priority(AboveNormal)
     /\ \A i \in DOMAIN osCalls : osCalls[i].ok) =>
        /\ IsLowestSetBit(processAffinityMask, systemAffinityMask)
        /\ priorityClass = ABOVE_NORMAL_PRIORITY_CLASS
        /\ log = << InfoLine("Configured the game to use 1 CPU core.", <<>>),
                    InfoLine("Set the game's CPU priority to %s.", AboveNormal) >>

C9_Witness ==
    /\ pc = "done"
    /\ ~cmdLine.CPUCount.present
    /\ ~cmdLine.CPUPriority.present
    /\ configFile = Priority(AboveNormal)
    /\ \A i \in DOMAIN osCalls : osCalls[i].ok
    /\ systemAffinityMask = 6
    /\ processAffinityMask = 2
    /\ priorityClass = ABOVE_NORMAL_PRIORITY_CLASS

\* C10: with the CPUPriority switch present the configuration file is never
\* opened, the only value resolved is the switch's, and a switch value that
\* resolves to no class leaves the priority class to no OS call at all.
C10_ArgumentPrecedesConfigFile ==
    cmdLine.CPUPriority.present =>
        /\ configOpened = 0
        /\ priorityCall \in {<<>>, <<[priority |-> cmdLine.CPUPriority.value,
                                      isCPUPriorityArgument |-> TRUE]>>}
        /\ (Unrecognized(cmdLine.CPUPriority.value)
              \/ cmdLine.CPUPriority.value \in NameVariants[Low])
            => Calls("SetPriorityClass") = {}

C10_Witness ==
    /\ pc = "done"
    /\ cmdLine.CPUPriority = Switch(<<"b", "o", "g", "u", "s">>)
    /\ configFile = Priority(High)
    /\ configOpened = 0
    /\ Calls("SetPriorityClass") = {}

====
